---------------------------- MODULE Spec2Model ----------------------------
(***************************************************************************)
(* Gaussian process regression engine of nispat/gp.py: the covariance      *)
(* functions CovLin, CovSqExp, CovSqExpARD and the GPR class with its      *)
(* single-slot posterior cache (K, L, alpha, hyp, covfunc).                 *)
(*                                                                         *)
(* Numbers.  A float is a record [k, n, d]:                                *)
(*   k = "fin"  the rational n/d (d > 0),                                  *)
(*   k = "inf"  +infinity,   k = "nan"  not-a-number,                      *)
(*   k = "eps"  n / machine-epsilon  (n in {-1, 1}), i.e. n * 2^52.        *)
(* Hyperparameters are logarithms; an element k of a hyp vector stands for *)
(* the real k*ln(2)/2, so that exp(2*k) = 2^k is an integer.  Elements     *)
(* beyond the float64 exponent range make np.exp underflow to 0.0 or       *)
(* overflow to inf.  Logarithms are kept in thousandths (LnMilli).         *)
(***************************************************************************)
EXTENDS Integers, Sequences, FiniteSets, TLC

\* ------------------------------------------------------------------ bounds
MaxLogSn == 0      \* hyp[0] ranges over 0..MaxLogSn besides the underflowing value
MaxTrail == 1      \* trial points one optimizer run evaluates after hyp0
MaxIdx == 4        \* dcov is called with i in -MaxIdx..MaxIdx

\* ----------------------------------------------------------------- numbers
Fin(n, d) == [k |-> "fin", n |-> n, d |-> d]
NaN == [k |-> "nan", n |-> 0, d |-> 1]
PInf == [k |-> "inf", n |-> 1, d |-> 1]
OverEps(s) == [k |-> "eps", n |-> s, d |-> 1]
Zero == Fin(0, 1)

IsFinite(a) == a.k \in {"fin", "eps"}

Sgn(n) == IF n > 0 THEN 1 ELSE IF n < 0 THEN -1 ELSE 0

\* np.sign(a)
Sign(a) ==
  CASE a.k = "nan" -> NaN
    [] a.k \in {"inf", "eps"} -> Fin(a.n, 1)
    [] a.k = "fin" -> Fin(Sgn(a.n), 1)

\* a / np.finfo(float).eps for a in {-1, 0, 1, nan}
DivEps(a) ==
  CASE a.k = "nan" -> NaN
    [] a.k = "fin" -> IF a.n = 0 THEN Zero ELSE OverEps(a.n)

\* np.sign(a) / np.finfo(float).eps
SignOverEps(a) == DivEps(Sign(a))

\* a <= b on finite floats; 1/eps = 2^52 exceeds every "fin" value here
Leq(a, b) ==
  CASE a.k = "eps" /\ b.k = "eps" -> a.n <= b.n
    [] a.k = "eps" /\ b.k = "fin" -> a.n < 0
    [] a.k = "fin" /\ b.k = "eps" -> b.n > 0
    [] a.k = "fin" /\ b.k = "fin" -> a.n * b.d <= b.n * a.d

Less(a, b) == Leq(a, b) /\ ~Leq(b, a)

\* np.exp(2*h) for a hyp element h (float64: underflow to 0.0, overflow to inf)
Exp2(h) ==
  IF h < -1074 THEN Zero
  ELSE IF h > 1023 THEN PInf
  ELSE Fin(2^h, 1)

\* round(1000 * ln(n)) for n in 1..64
LnTable ==
  << 0, 693, 1099, 1386, 1609, 1792, 1946, 2079, 2197, 2303, 2398, 2485,
     2565, 2639, 2708, 2773, 2833, 2890, 2944, 2996, 3045, 3091, 3135, 3178,
     3219, 3258, 3296, 3332, 3367, 3401, 3434, 3466, 3497, 3526, 3555, 3584,
     3611, 3638, 3664, 3689, 3714, 3738, 3761, 3784, 3807, 3829, 3850, 3871,
     3892, 3912, 3932, 3951, 3970, 3989, 4007, 4025, 4043, 4060, 4078, 4094,
     4111, 4127, 4143, 4159 >>
LnMilli(n) == LnTable[n]

\* round(1000 * 0.5 * ln(2*pi))
HalfLn2PiMilli == 919

\* ---------------------------------------------------------------- matrices
\* A matrix is a sequence of rows; training sets have one or two rows.
Rows(M) == Len(M)
Cols(M) == Len(M[1])

RECURSIVE SumSeq(_)
SumSeq(s) == IF s = <<>> THEN 0 ELSE Head(s) + SumSeq(Tail(s))

Dot(u, v) == SumSeq([i \in 1..Len(u) |-> u[i] * v[i]])

Det(A) ==
  CASE Rows(A) = 1 -> A[1][1]
    [] Rows(A) = 2 -> A[1][1] * A[2][2] - A[1][2] * A[2][1]

\* adjugate: inverse(A) = Adj(A) / Det(A)
Adj(A) ==
  CASE Rows(A) = 1 -> << <<1>> >>
    [] Rows(A) = 2 -> << <<A[2][2], -A[1][2]>>, <<-A[2][1], A[1][1]>> >>

MatVec(A, v) == [i \in 1..Rows(A) |-> Dot(A[i], v)]

Trace(A) == SumSeq([i \in 1..Rows(A) |-> A[i][i]])

\* squared Euclidean distance between two rows
SqDist(u, v) == SumSeq([i \in 1..Len(u) |-> (u[i] - v[i]) * (u[i] - v[i])])


\* ------------------------------------------------------------------ inputs
None == <<>>
Some(v) == <<v>>

\* Covariance-function instances: one CovLin object, one CovSqExp object and
\* one CovSqExpARD object constructed from a one-column data matrix.  The
\* engine is driven with the first two.
Covs == {"lin", "se"}
AllCovs == Covs \cup {"ard"}
LinCovs == {"lin"}

Class(c) ==
  CASE c \in LinCovs -> "CovLin"
    [] c = "se" -> "CovSqExp"
    [] c = "ard" -> "CovSqExpARD"

\* Training sets (X, y).  All rows of one X are equal, so every pairwise
\* squared distance is 0 and the squared-exponential kernels are exact.
TrainA == [X |-> << <<1>> >>, y |-> <<2>>]
TrainB == [X |-> << <<1>>, <<1>> >>, y |-> <<2, 0>>]
Data == {TrainA, TrainB}

\* hyp[0]: a value whose exp(2*hyp[0]) underflows to 0, and 0..MaxLogSn
SnVals == {-2000} \cup (0..MaxLogSn)

\* hyp vectors of length 1 (noise only) and 3 (noise, log ell = 0,
\* log sf = 0)
Hyps == {<<0>>} \cup {<<s, 0, 0>> : s \in SnVals}

HypsOfLen(n) == {h \in Hyps : Len(h) = n}

\* parameter indices for direct calls of dcov
Indices == (-MaxIdx)..MaxIdx

\* theta vectors for direct calls of dcov
Thetas == {<<>>, <<0, 0>>}

\* ---------------------------------------------------- covariance functions
\* utils.squared_dist: pairwise squared distances between the rows of x and z
SquaredDist(x, z) ==
  [i \in 1..Rows(x) |-> [j \in 1..Rows(z) |-> SqDist(x[i], z[j])]]

\* np.exp(t) for a log-lengthscale t; the inputs use ell = exp(0) = 1 only
ExpEll(t) == CASE t = 0 -> 1

\* np.exp(-r/2); exact at r = 0, the only distance the inputs produce
ExpNegHalf(r) == CASE r = 0 -> 1

\* x / ell for an integer lengthscale
Scale(x, ell) == [i \in 1..Rows(x) |-> [j \in 1..Len(x[i]) |-> x[i][j] \div ell]]

\* x.dot(z.T)
DotT(x, z) == [i \in 1..Rows(x) |-> [j \in 1..Rows(z) |-> Dot(x[i], z[j])]]

CovOk(K, fc) == [exc |-> "none", K |-> K, fc |-> fc]
CovRaise(e, fc) == [exc |-> e, K |-> <<>>, fc |-> fc]

\* CovLin.cov; fc is this instance's first_call flag.  theta is never None
\* when the engine calls it (theta = hyp[1:]), so theta[0] is evaluated
\* whenever first_call is False.
CovLinCov(fc, theta, x, z) ==
  IF ~fc
  THEN IF Len(theta) = 0
       THEN CovRaise("IndexError", fc)
       ELSE CovOk(DotT(x, z), TRUE)
  ELSE CovOk(DotT(x, z), fc)

\* CovSqExp.cov
CovSqExpCov(theta, x, z) ==
  IF Len(theta) < 2
  THEN CovRaise("IndexError", FALSE)
  ELSE LET ell == ExpEll(theta[1])
           sf2 == Exp2(theta[2]).n
           R == SquaredDist(Scale(x, ell), Scale(z, ell))
       IN CovOk([i \in 1..Rows(x) |->
                   [j \in 1..Rows(z) |-> sf2 * ExpNegHalf(R[i][j])]], FALSE)

\* CovSqExpARD.cov for an instance constructed with D columns
CovSqExpARDCov(Dc, theta, x, z) ==
  IF Len(theta) <= Dc
  THEN CovRaise("IndexError", FALSE)
  ELSE LET ell == [j \in 1..Dc |-> ExpEll(theta[j])]
           sf2 == Exp2(theta[Dc + 1]).n
           xs == [i \in 1..Rows(x) |-> [j \in 1..Dc |-> x[i][j] \div ell[j]]]
           zs == [i \in 1..Rows(z) |-> [j \in 1..Dc |-> z[i][j] \div ell[j]]]
           R == SquaredDist(xs, zs)
       IN CovOk([i \in 1..Rows(x) |->
                   [j \in 1..Rows(z) |-> sf2 * ExpNegHalf(R[i][j])]], FALSE)

\* covfunc.cov(theta, x, z) by dynamic dispatch; fc is the first_call map
Cov(c, fc, theta, x, z) ==
  CASE Class(c) = "CovLin" ->
         LET r == CovLinCov(fc[c], theta, x, z)
         IN [exc |-> r.exc, K |-> r.K, fc |-> [fc EXCEPT ![c] = r.fc]]
    [] Class(c) = "CovSqExp" ->
         LET r == CovSqExpCov(theta, x, z)
         IN [exc |-> r.exc, K |-> r.K, fc |-> fc]
    [] Class(c) = "CovSqExpARD" ->
         LET r == CovSqExpARDCov(1, theta, x, z)
         IN [exc |-> r.exc, K |-> r.K, fc |-> fc]

ZeroMat(n) == [i \in 1..n |-> [j \in 1..n |-> 0]]
DcovOk(dK) == [exc |-> "none", dK |-> dK]
DcovRaise(e) == [exc |-> e, dK |-> <<>>]

\* CovLin.dcov: np.asarray(0) for i = 0 (kept as a 1 x 1 zero), else ValueError
CovLinDcov(theta, x, i) ==
  IF i = 0 THEN DcovOk(ZeroMat(1)) ELSE DcovRaise("ValueError")

\* CovSqExp.dcov
CovSqExpDcov(theta, x, i) ==
  IF Len(theta) < 2
  THEN DcovRaise("IndexError")
  ELSE LET ell == ExpEll(theta[1])
           sf2 == Exp2(theta[2]).n
           R == SquaredDist(Scale(x, ell), Scale(x, ell))
           n == Rows(x)
       IN IF i = 0
          THEN DcovOk([a \in 1..n |-> [b \in 1..n |->
                         sf2 * ExpNegHalf(R[a][b]) * R[a][b]]])
          ELSE IF i = 1
          THEN DcovOk([a \in 1..n |-> [b \in 1..n |->
                         2 * sf2 * ExpNegHalf(R[a][b])]])
          ELSE DcovRaise("ValueError")

\* CovSqExpARD.dcov for an instance constructed with Dc columns.  A negative
\* i passes the test i < D; x[:, i] and ell[i] then index from the end and
\* raise IndexError only below -D.
CovSqExpARDDcov(Dc, theta, x, i) ==
  LET cv == CovSqExpARDCov(Dc, theta, x, x)
      n == Rows(x)
  IN IF cv.exc # "none" THEN DcovRaise(cv.exc)
     ELSE IF i < Dc
     THEN IF i < -Cols(x) \/ i < -Dc
          THEN DcovRaise("IndexError")
          ELSE LET col == IF i >= 0 THEN i + 1 ELSE Cols(x) + i + 1
                   e == ExpEll(theta[IF i >= 0 THEN i + 1 ELSE Dc + i + 1])
                   xi == [a \in 1..n |-> <<x[a][col] \div e>>]
                   R == SquaredDist(xi, xi)
               IN DcovOk([a \in 1..n |-> [b \in 1..n |->
                            cv.K[a][b] * R[a][b]]])
     ELSE IF i = Dc
     THEN DcovOk([a \in 1..n |-> [b \in 1..n |-> 2 * cv.K[a][b]]])
     ELSE DcovRaise("ValueError")

\* covfunc.dcov(theta, x, i) by dynamic dispatch
Dcov(c, theta, x, i) ==
  CASE Class(c) = "CovLin" -> CovLinDcov(theta, x, i)
    [] Class(c) = "CovSqExp" -> CovSqExpDcov(theta, x, i)
    [] Class(c) = "CovSqExpARD" -> CovSqExpARDDcov(1, theta, x, i)

\* get_n_params
NParams(c) ==
  CASE Class(c) = "CovLin" -> 0
    [] Class(c) = "CovSqExp" -> 2
    [] Class(c) = "CovSqExpARD" -> 1 + 1


\* ---------------------------------------------------------- linear algebra
\* K + sn2 * np.eye(N) for a finite sn2
AddNoise(Km, sn2n) ==
  [i \in 1..Rows(Km) |->
     [j \in 1..Rows(Km) |-> Km[i][j] + (IF i = j THEN sn2n ELSE 0)]]

\* A symmetric matrix has a Cholesky factor iff its leading minors are positive
PosDef(A) ==
  CASE Rows(A) = 1 -> A[1][1] > 0
    [] Rows(A) = 2 -> A[1][1] > 0 /\ Det(A) > 0

\* A Cholesky factor is kept as the matrix it factors: [k |-> "num", A |-> A]
\* is the lower-triangular L with L.L^T = A.  k = "inf": the 1 x 1 factor
\* [[inf]]; k = "nan": a factor holding NaN.  A then only keeps the shape.
CholOk(f) == [exc |-> "none", L |-> f]
CholRaise == [exc |-> "LinAlgError", L |-> [k |-> "nan", A |-> <<>>]]

\* A factorization that never reports a non-positive pivot and returns a NaN
\* factor instead
CholWithoutPivotCheck(Km, sn2) ==
  IF sn2.k = "fin" /\ PosDef(AddNoise(Km, sn2.n))
  THEN {CholOk([k |-> "num", A |-> AddNoise(Km, sn2.n)])}
  ELSE {CholOk([k |-> "nan", A |-> ZeroMat(Rows(Km))])}

\* numpy.linalg.cholesky(K + sn2*np.eye(N)): the set of possible outcomes.
\* With sn2 = inf and N = 1 the matrix is [[inf]] and the factor [[inf]];
\* with N = 2 the off-diagonal inf*0 is NaN, and whether LAPACK reports the
\* NaN pivot or returns a NaN factor depends on the build.
Chol(Km, sn2) ==
  IF sn2.k = "fin"
  THEN IF PosDef(AddNoise(Km, sn2.n))
       THEN {CholOk([k |-> "num", A |-> AddNoise(Km, sn2.n)])}
       ELSE {CholRaise}
  ELSE IF Rows(Km) = 1
       THEN {CholOk([k |-> "inf", A |-> ZeroMat(1)])}
       ELSE {CholRaise, CholOk([k |-> "nan", A |-> ZeroMat(Rows(Km))])}

\* solve(L.T, solve(L, y)) = inverse(L.L^T) y, as numerators over one
\* denominator
SolveAlpha(Lf, y) ==
  CASE Lf.k = "num" -> [k |-> "num", n |-> MatVec(Adj(Lf.A), y), d |-> Det(Lf.A)]
    [] Lf.k = "inf" -> [k |-> "num", n |-> [i \in 1..Len(y) |-> 0], d |-> 1]
    [] Lf.k = "nan" -> [k |-> "nan", n |-> [i \in 1..Len(y) |-> 0], d |-> 1]

\* ------------------------------------------------------------------ engine
\* The engine's fields as one record: K, L, alpha, hyp, covfunc are None
\* until assigned (hasattr is False); hyp = None stands for the initial
\* np.nan, which compares unequal to everything.  N, D are 0 until assigned.
\* src is the history of lines 226-228: the (hyp, covfunc, data) that the
\* stored L and alpha were computed from.

\* np.asarray(hyp == self.hyp).all(), with numpy's broadcasting of a
\* length-1 vector against a longer one
HypEqAll(h, stored) ==
  /\ stored # None
  /\ LET g == stored[1]
     IN CASE Len(h) = Len(g) -> \A i \in 1..Len(h) : h[i] = g[i]
          [] Len(h) # Len(g) /\ Len(h) = 1 -> \A i \in 1..Len(g) : h[1] = g[i]
          [] Len(h) # Len(g) /\ Len(g) = 1 -> \A i \in 1..Len(h) : h[i] = g[1]

\* GPR._updatepost also requiring the stored posterior to have the size of
\* the current training set
UpdatePostCheckingSize(s, h, c) ==
  ~(/\ HypEqAll(h, s.hyp)
    /\ s.alpha # None
    /\ s.covfunc # None /\ c = s.covfunc[1]
    /\ s.src # None /\ s.N = Rows(s.src[1].data.X))

\* GPR._updatepost without the comparison of the covariance function
UpdatePostIgnoringCov(s, h, c) ==
  ~(/\ HypEqAll(h, s.hyp)
    /\ s.alpha # None)

\* GPR._updatepost: TRUE iff the posterior must be recomputed
UpdatePost(s, h, c) ==
  ~(/\ HypEqAll(h, s.hyp)
    /\ s.alpha # None
    /\ s.covfunc # None /\ c = s.covfunc[1])

PostResult(s, fc, exc, ran, cholFailed) ==
  [self |-> s, fc |-> fc, exc |-> exc, ran |-> ran, cholFailed |-> cholFailed]

\* GPR.post: the set of outcomes of post(hyp, covfunc, X, y) on the engine s
\* with first_call map fc.  ran is "skipped" when the stored posterior is
\* reused, "failed" when the computation raised, "done" when it completed.
PostOutcomes(s, fc, h, c, d) ==
  LET s1 == [s EXCEPT !.N = Rows(d.X), !.D = Cols(d.X)]
  IN IF ~UpdatePost(s1, h, c)
     THEN {PostResult(s1, fc, "none", "skipped", FALSE)}
     ELSE LET sn2 == Exp2(h[1])
              theta == Tail(h)
              cv == Cov(c, fc, theta, d.X, d.X)
          IN IF cv.exc # "none"
             THEN {PostResult(s1, cv.fc, cv.exc, "failed", FALSE)}
             ELSE LET s2 == [s1 EXCEPT !.K = Some(cv.K)]
                  IN {IF ch.exc # "none"
                      THEN PostResult(s2, cv.fc, ch.exc, "failed", TRUE)
                      ELSE PostResult(
                             [s2 EXCEPT !.L = Some(ch.L),
                                        !.alpha = Some(SolveAlpha(ch.L, d.y)),
                                        !.hyp = Some(h),
                                        !.covfunc = Some(c),
                                        !.src = Some([hyp |-> h, cov |-> c,
                                                      data |-> d])],
                             cv.fc, "none", "done", FALSE)
                      : ch \in Chol(cv.K, sn2)}


\* 1 / np.finfo(float).eps
Sentinel == OverEps(1)

ValOk(v) == [exc |-> "none", val |-> v]
ValRaise(e) == [exc |-> e, val |-> NaN]

\* 0.5*y.T.dot(self.alpha) + sum(np.log(np.diag(self.L))) + 0.5*self.N*np.log(2*np.pi)
\* in thousandths; sum(log(diag(L))) = ln(det(L.L^T)) / 2.  y.T.dot(alpha)
\* raises ValueError when the lengths differ.
NlZValue(s, y) ==
  LET al == s.alpha[1]
      Lf == s.L[1]
  IN IF Len(y) # Len(al.n) THEN ValRaise("ValueError")
     ELSE CASE al.k = "nan" \/ Lf.k = "nan" -> ValOk(NaN)
            [] al.k # "nan" /\ Lf.k = "inf" -> ValOk(PInf)
            [] al.k # "nan" /\ Lf.k = "num" ->
                 ValOk(Fin(((1000 * Dot(y, al.n)) \div (2 * al.d))
                           + (LnMilli(Det(Lf.A)) \div 2)
                           + s.N * HalfLn2PiMilli, 1000))

LoglikResult(o, nlz, exc, ret, nonfinite) ==
  [self |-> o.self, fc |-> o.fc, nlZ |-> nlz, exc |-> exc, ret |-> ret,
   ran |-> o.ran, cholFailed |-> o.cholFailed, nonfinite |-> nonfinite]

\* GPR.loglik after the posterior step o (lines 238-253).  self.nlZ is
\* assigned here and in estimate and read nowhere: the state keeps the kind
\* of value it holds ("nan" at construction, "fin", "eps" for the sentinel),
\* nlz, and the value itself is the call's result ret.
LoglikAfter(o, nlz, d) ==
  IF o.exc \in {"ValueError", "LinAlgError"}
  THEN LoglikResult(o, Sentinel.k, "none", Sentinel, FALSE)
  ELSE IF o.exc # "none"
  THEN LoglikResult(o, nlz, o.exc, NaN, FALSE)
  ELSE LET v == NlZValue(o.self, d.y)
       IN IF v.exc # "none"
          THEN LoglikResult(o, nlz, v.exc, NaN, FALSE)
          ELSE IF ~IsFinite(v.val)
          THEN LoglikResult(o, Sentinel.k, "none", Sentinel, TRUE)
          ELSE LoglikResult(o, v.val.k, "none", v.val, FALSE)

\* The posterior step of loglik, dloglik and predict: post is called only
\* when _updatepost says so; otherwise not even N and D are assigned.
EnsurePost(s, fc, h, c, d) ==
  IF UpdatePost(s, h, c)
  THEN PostOutcomes(s, fc, h, c, d)
  ELSE {PostResult(s, fc, "none", "skipped", FALSE)}

\* GPR.loglik: the set of outcomes
LoglikOutcomes(s, fc, nlz, h, c, d) ==
  {LoglikAfter(o, nlz, d) : o \in EnsurePost(s, fc, h, c, d)}

\* Q = np.outer(alpha, alpha) - solve(L.T, solve(L, np.eye(self.N))) as
\* numerators n over the denominator d; solve raises ValueError when
\* self.N is not the size of L.
QMatrix(s) ==
  LET al == s.alpha[1]
      Lf == s.L[1]
      m == Len(al.n)
  IN IF s.N # m THEN [exc |-> "ValueError", k |-> "nan", n |-> <<>>, d |-> 1]
     ELSE CASE Lf.k = "nan" ->
                 [exc |-> "none", k |-> "nan", n |-> ZeroMat(m), d |-> 1]
            [] Lf.k = "inf" ->
                 [exc |-> "none", k |-> "fin", n |-> ZeroMat(m), d |-> 1]
            [] Lf.k = "num" ->
                 [exc |-> "none", k |-> "fin",
                  n |-> [i \in 1..m |-> [j \in 1..m |->
                           al.n[i] * al.n[j] - al.d * Adj(Lf.A)[i][j]]],
                  d |-> al.d * al.d]

\* -sn2*np.trace(Q)
NoiseGrad(sn2, Q) ==
  CASE Q.k = "nan" -> NaN
    [] Q.k = "fin" /\ sn2.k = "fin" -> Fin(-(sn2.n * Trace(Q.n)), Q.d)
    [] Q.k = "fin" /\ sn2.k = "inf" ->
         IF Trace(Q.n) = 0 THEN NaN
         ELSE [k |-> "inf", n |-> -Sgn(Trace(Q.n)), d |-> 1]

\* index into an axis of the given size under numpy broadcasting
Bc(i, size) == IF size = 1 THEN 1 ELSE i

\* -0.5*np.sum(np.sum(Q*dK.T)), Q and dK broadcast against each other
ParamGrad(Q, dK) ==
  IF Q.k = "nan" THEN NaN
  ELSE LET nq == Rows(Q.n)
           nd == Rows(dK)
           n == IF nq >= nd THEN nq ELSE nd
       IN Fin(-SumSeq([i \in 1..n |->
                 SumSeq([j \in 1..n |->
                   Q.n[Bc(i, nq)][Bc(j, nq)] * dK[Bc(j, nd)][Bc(i, nd)]])]),
              2 * Q.d)

\* lines 288-291: a non-finite component becomes np.sign(component)/eps
FixNonFinite(a) == IF IsFinite(a) THEN a ELSE SignOverEps(a)

DloglikResult(o, dn, exc, ret) ==
  [self |-> o.self, fc |-> o.fc, dnlZ |-> dn, exc |-> exc, ret |-> ret,
   ran |-> o.ran, cholFailed |-> o.cholFailed]

\* GPR.dloglik after the posterior step o (lines 266-296).  self.dnlZ is
\* read only as np.sign(self.dnlZ) (line 268): the state keeps that sign
\* vector, dn (None while the attribute does not exist), and the gradient
\* itself is the call's result ret.
DloglikAfter(o, dn, h, c, d) ==
  IF o.exc \in {"ValueError", "LinAlgError"}
  THEN IF dn = None
       THEN DloglikResult(o, dn, "AttributeError", <<>>)
       ELSE DloglikResult(o, dn, "none",
                          [i \in 1..Len(dn[1]) |-> DivEps(dn[1][i])])
  ELSE IF o.exc # "none"
  THEN DloglikResult(o, dn, o.exc, <<>>)
  ELSE LET Q == QMatrix(o.self)
           sn2 == Exp2(h[1])
           theta == Tail(h)
           bad == {p \in 0..(Len(theta) - 1) :
                     Dcov(c, theta, d.X, p).exc # "none"}
           stop == IF bad = {} THEN Len(theta)
                   ELSE CHOOSE p \in bad : \A q \in bad : p <= q
           raw == [i \in 1..Len(h) |->
                     IF i = 1 THEN NoiseGrad(sn2, Q)
                     ELSE IF i - 2 < stop
                     THEN ParamGrad(Q, Dcov(c, theta, d.X, i - 2).dK)
                     ELSE Zero]
       IN IF Q.exc # "none"
          THEN DloglikResult(o, dn, Q.exc, <<>>)
          ELSE IF bad # {}
          THEN DloglikResult(o, Some([i \in 1..Len(h) |-> Sign(raw[i])]),
                             Dcov(c, theta, d.X, stop).exc, <<>>)
          ELSE LET g == [i \in 1..Len(h) |-> FixNonFinite(raw[i])]
               IN DloglikResult(o, Some([i \in 1..Len(h) |-> Sign(g[i])]),
                                "none", g)

\* GPR.dloglik: the set of outcomes
DloglikOutcomes(s, fc, dn, h, c, d) ==
  {DloglikAfter(o, dn, h, c, d) : o \in EnsurePost(s, fc, h, c, d)}


PredictResult(o, fc, exc, ret) ==
  [self |-> o.self, fc |-> fc, exc |-> exc, ret |-> ret,
   ran |-> o.ran, cholFailed |-> o.cholFailed]

\* predictive mean Ks.dot(self.alpha) for the single test point
PredMean(Ks, al) ==
  IF al.k = "nan" THEN NaN ELSE Fin(Dot(Ks[1], al.n), al.d)

\* predictive variance kss - v.T.dot(v) + sn2 with v = solve(self.L, Ks.T),
\* so that v.T.dot(v) = Ks inverse(L.L^T) Ks^T
PredVar(Ks, kss, Lf, sn2) ==
  CASE Lf.k = "nan" -> NaN
    [] Lf.k # "nan" /\ sn2.k = "inf" -> PInf
    [] Lf.k = "inf" /\ sn2.k = "fin" -> Fin(kss + sn2.n, 1)
    [] Lf.k = "num" /\ sn2.k = "fin" ->
         Fin((kss + sn2.n) * Det(Lf.A) - Dot(Ks[1], MatVec(Adj(Lf.A), Ks[1])),
             Det(Lf.A))

\* GPR.predict after the posterior step o (lines 325-339).  The test input
\* Xs is the first training row.
PredictAfter(o, h, c, d) ==
  IF o.exc # "none"
  THEN PredictResult(o, o.fc, o.exc, <<>>)
  ELSE LET sn2 == Exp2(h[1])
           theta == Tail(h)
           Xs == <<d.X[1]>>
           ks == Cov(c, o.fc, theta, Xs, d.X)
           kss == Cov(c, ks.fc, theta, Xs, Xs)
           al == o.self.alpha[1]
           Lf == o.self.L[1]
       IN IF ks.exc # "none" THEN PredictResult(o, ks.fc, ks.exc, <<>>)
          ELSE IF kss.exc # "none" THEN PredictResult(o, kss.fc, kss.exc, <<>>)
          ELSE IF Len(ks.K[1]) # Len(al.n)
          THEN PredictResult(o, kss.fc, "ValueError", <<>>)
          ELSE PredictResult(o, kss.fc, "none",
                 [ymu |-> PredMean(ks.K, al),
                  ys2 |-> PredVar(ks.K, kss.K[1][1], Lf, sn2)])

\* GPR.predict: the set of outcomes.  self.covfunc is read before the
\* posterior is tested, which raises AttributeError while it does not exist.
PredictOutcomes(s, fc, h, d) ==
  IF s.covfunc = None
  THEN {[self |-> s, fc |-> fc, exc |-> "AttributeError", ret |-> <<>>,
         ran |-> "untested", cholFailed |-> FALSE]}
  ELSE {PredictAfter(o, h, s.covfunc[1], d)
          : o \in EnsurePost(s, fc, h, s.covfunc[1], d)}


\* --------------------------------------------------------------- estimate
\* optimizer names passed to estimate
Optimizers == {"cg", "powell", "newton"}

\* One optimizer run in progress: the engine, the exception that ended the
\* run if any, the points evaluated after hyp0, the best point evaluated so
\* far with its objective value, and the objective value at hyp0.
StartRun(s, fc, nlz, dn) ==
  [self |-> s, fc |-> fc, nlZ |-> nlz, dnlZ |-> dn, exc |-> "none",
   trail |-> <<>>, best |-> <<>>, fbest |-> Zero, f0 |-> Zero]

\* The optimizer calls self.loglik(h, covfunc, X, y) and keeps the lowest
\* value it has seen
Objective(t, h, c, d) ==
  {LET better == o.exc = "none" /\ (t.best = <<>> \/ Less(o.ret, t.fbest))
   IN [t EXCEPT !.self = o.self, !.fc = o.fc, !.nlZ = o.nlZ, !.exc = o.exc,
                !.best = IF better THEN h ELSE @,
                !.fbest = IF better THEN o.ret ELSE @,
                !.f0 = IF o.exc = "none" /\ t.best = <<>> THEN o.ret ELSE @]
     : o \in LoglikOutcomes(t.self, t.fc, t.nlZ, h, c, d)}

\* The optimizer calls self.dloglik(h, covfunc, X, y)
Gradient(t, h, c, d) ==
  {[t EXCEPT !.self = o.self, !.fc = o.fc, !.dnlZ = o.dnlZ, !.exc = o.exc]
     : o \in DloglikOutcomes(t.self, t.fc, t.dnlZ, h, c, d)}

\* One point of the run: fmin_cg evaluates the objective and its gradient,
\* fmin_powell the objective only; an exception ends the run.
EvalPoint(t, h, c, d, opt) ==
  UNION {IF t1.exc # "none" \/ opt # "cg" THEN {t1}
         ELSE Gradient(t1, h, c, d)
           : t1 \in Objective(t, h, c, d)}

\* The runs in R, and every continuation of a run of R that no exception
\* has ended by at most m further points, vectors of length n
RECURSIVE Runs(_, _, _, _, _, _)
Runs(R, m, n, c, d, opt) ==
  IF m = 0 THEN R
  ELSE R \cup Runs(UNION {UNION {{[t EXCEPT !.trail = Append(r.trail, h)]
                                   : t \in EvalPoint(r, h, c, d, opt)}
                                  : h \in HypsOfLen(n)}
                            : r \in {q \in R : q.exc = "none"}},
                   m - 1, n, c, d, opt)

\* GPR.estimate(hyp0, covfunc, X, y, optimizer): the set of outcomes.  The
\* optimizer evaluates hyp0 and then at most MaxTrail further points; it
\* returns the best point it evaluated and the value it got there, and
\* estimate assigns them to self.hyp and self.nlZ (lines 313-314).
EstimateOutcomes(s, fc, nlz, dn, h0, c, d, opt) ==
  IF opt \notin {"cg", "powell"}
  THEN {[StartRun(s, fc, nlz, dn) EXCEPT !.exc = "ValueError"]}
  ELSE {IF t.exc # "none" THEN t
        ELSE [t EXCEPT !.self.hyp = Some(t.best), !.nlZ = t.fbest.k]
          : t \in Runs(EvalPoint(StartRun(s, fc, nlz, dn), h0, c, d, opt),
                       MaxTrail, Len(h0), c, d, opt)}

\* ------------------------------------------------------------------- state
\* K, L, alpha, hyp, covfunc, N, D: the engine's attributes.  src: which
\* (hyp, covfunc, data) the stored L and alpha were computed from.  nlZ,
\* dnlZ: what is kept of self.nlZ and self.dnlZ.  first_call: the flag of
\* every CovLin instance.  last: the call in progress, from its return or
\* raise until the caller resumes (Return); Idle while no call is in progress.
VARIABLES K, L, alpha, hyp, covfunc, N, D, src, nlZ, dnlZ, first_call, last

vars == <<K, L, alpha, hyp, covfunc, N, D, src, nlZ, dnlZ, first_call, last>>

Self ==
  [K |-> K, L |-> L, alpha |-> alpha, hyp |-> hyp, covfunc |-> covfunc,
   N |-> N, D |-> D, src |-> src]

\* GPR.__init__ without priming data
EmptySelf ==
  [K |-> None, L |-> None, alpha |-> None, hyp |-> None, covfunc |-> None,
   N |-> 0, D |-> 0, src |-> None]

IsSelf(s) ==
  /\ K = s.K
  /\ L = s.L
  /\ alpha = s.alpha
  /\ hyp = s.hyp
  /\ covfunc = s.covfunc
  /\ N = s.N
  /\ D = s.D
  /\ src = s.src

SetSelf(s) ==
  /\ K' = s.K
  /\ L' = s.L
  /\ alpha' = s.alpha
  /\ hyp' = s.hyp
  /\ covfunc' = s.covfunc
  /\ N' = s.N
  /\ D' = s.D
  /\ src' = s.src

Idle ==
  [op |-> "idle", hyp |-> <<>>, cov |-> "", data |-> TrainA, idx |-> 0,
   exc |-> "none", ran |-> "untested", cholFailed |-> FALSE,
   nonfinite |-> FALSE, ret |-> <<>>, est |-> None, before |-> EmptySelf]

\* The record of one call op(h, c, d) on the engine s0 with outcome o
Record(op, h, c, d, o, nonfinite, ret, s0) ==
  [op |-> op, hyp |-> h, cov |-> c, data |-> d, idx |-> 0,
   exc |-> o.exc, ran |-> o.ran, cholFailed |-> o.cholFailed,
   nonfinite |-> nonfinite, ret |-> ret, est |-> None, before |-> s0]

\* GPR.__init__: an engine without posterior, or one primed by a completed
\* post(hyp, covfunc, X, y)
Init ==
  /\ nlZ = "nan"
  /\ dnlZ = None
  /\ last = Idle
  /\ \/ /\ IsSelf(EmptySelf)
        /\ first_call = [c \in LinCovs |-> FALSE]
     \/ \E h \in Hyps, c \in Covs, d \in Data :
          \E o \in PostOutcomes(EmptySelf, [x \in LinCovs |-> FALSE], h, c, d) :
            /\ o.exc = "none"
            /\ IsSelf(o.self)
            /\ first_call = o.fc

CallPost(h, c, d) ==
  /\ last.op = "idle"
  /\ \E o \in PostOutcomes(Self, first_call, h, c, d) :
       /\ SetSelf(o.self)
       /\ first_call' = o.fc
       /\ last' = Record("post", h, c, d, o, FALSE, <<>>, Self)
  /\ UNCHANGED <<nlZ, dnlZ>>

CallLoglik(h, c, d) ==
  /\ last.op = "idle"
  /\ \E o \in LoglikOutcomes(Self, first_call, nlZ, h, c, d) :
       /\ SetSelf(o.self)
       /\ first_call' = o.fc
       /\ nlZ' = o.nlZ
       /\ last' = Record("loglik", h, c, d, o, o.nonfinite, o.ret, Self)
  /\ UNCHANGED dnlZ

CallDloglik(h, c, d) ==
  /\ last.op = "idle"
  /\ \E o \in DloglikOutcomes(Self, first_call, dnlZ, h, c, d) :
       /\ SetSelf(o.self)
       /\ first_call' = o.fc
       /\ dnlZ' = o.dnlZ
       /\ last' = Record("dloglik", h, c, d, o, FALSE, o.ret, Self)
  /\ UNCHANGED nlZ

CallPredict(h, d) ==
  /\ last.op = "idle"
  /\ \E o \in PredictOutcomes(Self, first_call, h, d) :
       /\ SetSelf(o.self)
       /\ first_call' = o.fc
       /\ last' = Record("predict", h,
                         IF covfunc = None THEN "" ELSE covfunc[1],
                         d, o, FALSE, o.ret, Self)
  /\ UNCHANGED <<nlZ, dnlZ>>

CallEstimate(h0, c, d) ==
  /\ last.op = "idle"
  /\ \E opt \in Optimizers :
       \E t \in EstimateOutcomes(Self, first_call, nlZ, dnlZ, h0, c, d, opt) :
         /\ SetSelf(t.self)
         /\ first_call' = t.fc
         /\ nlZ' = t.nlZ
         /\ dnlZ' = t.dnlZ
         /\ last' = [Record("estimate", h0, c, d,
                            [exc |-> t.exc, ran |-> "untested",
                             cholFailed |-> FALSE],
                            FALSE, t.best, Self)
                       EXCEPT !.est = Some([optimizer |-> opt,
                                            trail |-> t.trail,
                                            f0 |-> t.f0, fbest |-> t.fbest])]

\* covfunc.dcov(theta, X, i) called directly on a covariance function
CallDcov(c, theta, d, i) ==
  /\ last.op = "idle"
  /\ LET r == Dcov(c, theta, d.X, i)
     IN last' = [Record("dcov", theta, c, d,
                        [exc |-> r.exc, ran |-> "untested",
                         cholFailed |-> FALSE],
                        FALSE, r.dK, EmptySelf)
                   EXCEPT !.idx = i]
  /\ UNCHANGED <<K, L, alpha, hyp, covfunc, N, D, src, nlZ, dnlZ, first_call>>

\* The caller resumes after the call returned or raised
Return ==
  /\ last.op # "idle"
  /\ last' = Idle
  /\ UNCHANGED <<K, L, alpha, hyp, covfunc, N, D, src, nlZ, dnlZ, first_call>>

Next ==
  \/ \E h \in Hyps, c \in Covs, d \in Data : CallPost(h, c, d)
  \/ \E h \in Hyps, c \in Covs, d \in Data : CallLoglik(h, c, d)
  \/ \E h \in Hyps, c \in Covs, d \in Data : CallDloglik(h, c, d)
  \/ \E h \in Hyps, d \in Data : CallPredict(h, d)
  \/ \E h \in Hyps, c \in Covs, d \in Data : CallEstimate(h, c, d)
  \/ Return

Spec == Init /\ [][Next]_vars

\* The covariance functions on their own: dcov called directly
InitCov ==
  /\ IsSelf(EmptySelf)
  /\ nlZ = "nan"
  /\ dnlZ = None
  /\ first_call = [c \in LinCovs |-> FALSE]
  /\ last = Idle

NextCov ==
  \/ \E c \in AllCovs, theta \in Thetas, d \in Data, i \in Indices :
       CallDcov(c, theta, d, i)
  \/ Return

SpecCov == InitCov /\ [][NextCov]_vars


\* ------------------------------------------------------------------ claims
PosteriorOps == {"post", "loglik", "dloglik", "predict"}

\* Some element of h differs from the corresponding element of g, the
\* element-wise comparison being numpy's: a length-1 vector is compared with
\* every element of the other one.
Differs(h, g) ==
  LET n == IF Len(h) >= Len(g) THEN Len(h) ELSE Len(g)
  IN \E i \in 1..n : h[Bc(i, Len(h))] # g[Bc(i, Len(g))]

\* The key (h, c) is Stale on the engine s: no posterior is stored yet, or
\* hyp differs element-wise from the stored hyp, or the covariance function
\* is not the stored object.
StaleKey(s, h, c) ==
  \/ s.alpha = None
  \/ s.hyp = None
  \/ Differs(h, s.hyp[1])
  \/ s.covfunc = None
  \/ s.covfunc[1] # c

\* K, L and alpha are the objects they were before the call
SamePosterior == K = last.before.K /\ L = last.before.L /\ alpha = last.before.alpha

ValidHyp(h, c) == Len(h) = 1 + NParams(c)

\* C2: loglik never propagates a failure of the posterior computation: when
\* the computation of the posterior raised, loglik returns the sentinel
\* 1/eps and stores it as nlZ.
C2_LoglikNeverPropagates ==
  (last.op = "loglik" /\ ValidHyp(last.hyp, last.cov) /\ last.ran = "failed") =>
    /\ last.exc = "none"
    /\ last.ret = Sentinel
    /\ nlZ = Sentinel.k

\* C3: dloglik never propagates a failed factorization, whether or not an
\* earlier dloglik call has succeeded: it returns sign(previous dnlZ)/eps.
C3_DloglikNeverPropagates ==
  (last.op = "dloglik" /\ ValidHyp(last.hyp, last.cov) /\ last.cholFailed) =>
    /\ last.exc = "none"
    /\ Len(last.ret) > 0
    /\ \A i \in 1..Len(last.ret) : last.ret[i] = DivEps(dnlZ[1][i])

\* The index i is a parameter index of the covariance function c (for the
\* Linear variant: i = 0)
ValidIndex(c, i) ==
  IF Class(c) = "CovLin" THEN i = 0 ELSE i >= 0 /\ i < NParams(c)

\* C4: dcov(theta, X, i) fails for every index i that is not a parameter
\* index, negative ones included: it never returns a matrix for it.
C4_DcovRejectsIndex ==
  (/\ last.op = "dcov"
   /\ Len(last.hyp) = NParams(last.cov)
   /\ ~ValidIndex(last.cov, last.idx)) => last.exc # "none"

\* K + sn2*I of the call (h, c, d) is not positive definite, so that its
\* Cholesky factorization fails
Singular(h, c, d) ==
  /\ Len(h) = 3
  /\ Exp2(h[1]).k = "fin"
  /\ ~PosDef(AddNoise(IF Class(c) = "CovLin" THEN DotT(d.X, d.X)
                      ELSE CovSqExpCov(Tail(h), d.X, d.X).K,
                      Exp2(h[1]).n))

\* C5: when post is called directly with a Stale key and the factorization
\* of K + sn2*I fails, the decomposition error (LinAlgError) reaches the
\* caller and the stored hyp and covfunc are not updated: the key of the
\* failing call stays Stale.
C5_PostPropagates ==
  (/\ last.op = "post"
   /\ StaleKey(last.before, last.hyp, last.cov)
   /\ Singular(last.hyp, last.cov, last.data)) =>
    /\ last.exc = "LinAlgError"
    /\ hyp = last.before.hyp
    /\ covfunc = last.before.covfunc
    /\ StaleKey(Self, last.hyp, last.cov)

\* C5 witness: a direct post on an engine holding a posterior has raised
\* LinAlgError from the factorization
C5_PostRaised ==
  /\ last.op = "post"
  /\ last.before.alpha # None
  /\ Singular(last.hyp, last.cov, last.data)
  /\ last.cholFailed
  /\ last.exc = "LinAlgError"

\* C6: a loglik call with the hyp estimate returned, issued right after
\* estimate on the same engine with the same covariance function and data,
\* yields a value <= the value loglik gave for hyp0.
C6_EstimateNeverWorse ==
  (last.op = "estimate" /\ ValidHyp(last.hyp, last.cov) /\ last.exc = "none") =>
    \A o \in LoglikOutcomes(Self, first_call, nlZ, last.ret, last.cov,
                           last.data) :
      o.exc = "none" /\ Leq(o.ret, last.est[1].f0)

\* C7: with the Linear covariance function, post and loglik accept a hyp
\* vector of length 1 and compute the posterior without raising.
C7_LinearAcceptsNoiseOnly ==
  (/\ last.op \in {"post", "loglik"}
   /\ Class(last.cov) = "CovLin"
   /\ Len(last.hyp) = 1
   /\ last.ran # "skipped") => last.ran = "done" /\ last.exc = "none"

\* C8: when estimate has returned hyp* and the engine reports the key
\* (hyp*, covfunc) Fresh, the stored L and alpha were computed from hyp*.
C8_FreshMeansComputedFromKey ==
  (/\ last.op = "estimate"
   /\ ValidHyp(last.hyp, last.cov)
   /\ last.exc = "none"
   /\ ~UpdatePost(Self, last.ret, last.cov)) =>
    src # None /\ src[1].hyp = last.ret /\ src[1].cov = last.cov

\* C9: a posterior computation that fails in the factorization, on an engine
\* holding a posterior, leaves K, L, alpha, hyp, covfunc, N and D as they
\* were before the call.
C9_FailureLeavesCache ==
  (/\ last.op \in PosteriorOps
   /\ ValidHyp(last.hyp, last.cov)
   /\ last.before.alpha # None
   /\ last.cholFailed) =>
    /\ SamePosterior
    /\ hyp = last.before.hyp
    /\ covfunc = last.before.covfunc
    /\ N = last.before.N
    /\ D = last.before.D

\* The call repeats the key of the stored posterior with other training data
OtherData ==
  /\ last.op \in PosteriorOps
  /\ last.before.src # None
  /\ last.before.hyp = Some(last.hyp)
  /\ last.before.covfunc = Some(last.cov)
  /\ last.before.src[1].hyp = last.hyp
  /\ last.before.src[1].cov = last.cov
  /\ last.before.src[1].data # last.data

\* C10: training data is not part of the cache key: a call with the hyp and
\* the covariance function of the stored posterior but different training
\* data is treated as Fresh and recomputes none of K, L, alpha.
C10_DataNotInKey == OtherData => last.ran = "skipped" /\ SamePosterior

\* C10 witness: such a call has been made and skipped the recomputation
C10_OtherDataSkipped == OtherData /\ last.ran = "skipped"

=============================================================================
